---- MODULE Spec2Model ----
(***************************************************************************)
(* Model of two numerical routines of sbi:                                 *)
(*   - NPE_B._log_prob_proposal_posterior (trainers/npe/npe_b.py), the     *)
(*     importance-weighted log-probability of NPE-B;                       *)
(*   - BinomialGammaPotential (tutorials/example_01_utils.py), a potential *)
(*     for mixed binomial / inverse-gamma data.                            *)
(* Tensors of reals are modelled by exact rationals extended with the      *)
(* IEEE values inf, -inf and nan; tensors whose values do not matter are   *)
(* modelled by their shape and by the finiteness of each entry.            *)
(***************************************************************************)
EXTENDS Integers, Sequences, FiniteSets, TLC

\* ------------------------------------------------------------------------
\* Bounds of the model
\* ------------------------------------------------------------------------
\* number of samples in the batch theta handed to the trainer's routine
BatchSize == 1
\* largest length of the trainer's proposal history
MaxLen == 2
\* largest round index of the trainer
MaxRound == 2

\* ------------------------------------------------------------------------
\* Extended rationals: the values of a float tensor entry
\* ------------------------------------------------------------------------
RECURSIVE GCD(_, _)
GCD(a, b) == IF b = 0 THEN a ELSE GCD(b, a % b)

Abs(n) == IF n < 0 THEN -n ELSE n

\* the rational n/d (d > 0) in lowest terms
Fin(n, d) ==
    LET g == GCD(Abs(n), d)
    IN  [kind |-> "fin", num |-> n \div g, den |-> d \div g]

PosInf == [kind |-> "inf", num |-> 1, den |-> 0]
MinusInf == [kind |-> "inf", num |-> -1, den |-> 0]
NaN == [kind |-> "nan", num |-> 0, den |-> 0]
Zero == Fin(0, 1)
One == Fin(1, 1)

IsFinite(v) == v.kind = "fin"

Sign(v) == IF v.num > 0 THEN 1 ELSE IF v.num < 0 THEN -1 ELSE 0

Signed(s) == IF s > 0 THEN PosInf ELSE IF s < 0 THEN MinusInf ELSE NaN

\* a + b
FAdd(a, b) ==
    IF a.kind = "nan" \/ b.kind = "nan" THEN NaN
    ELSE IF a.kind = "inf" /\ b.kind = "inf"
         THEN (IF a.num = b.num THEN a ELSE NaN)
    ELSE IF a.kind = "inf" THEN a
    ELSE IF b.kind = "inf" THEN b
    ELSE Fin(a.num * b.den + b.num * a.den, a.den * b.den)

\* a * b: inf * 0 is nan
FMul(a, b) ==
    IF a.kind = "nan" \/ b.kind = "nan" THEN NaN
    ELSE IF a.kind = "inf" \/ b.kind = "inf" THEN Signed(Sign(a) * Sign(b))
    ELSE Fin(a.num * b.num, a.den * b.den)

\* a / b: x / 0 is inf with the sign of x, 0 / 0 is nan
FDiv(a, b) ==
    IF a.kind = "nan" \/ b.kind = "nan" THEN NaN
    ELSE IF a.kind = "inf" /\ b.kind = "inf" THEN NaN
    ELSE IF a.kind = "inf" THEN (IF Sign(b) < 0 THEN Signed(-Sign(a)) ELSE a)
    ELSE IF b.kind = "inf" THEN Zero
    ELSE IF b.num = 0 THEN Signed(Sign(a))
    ELSE IF b.num < 0 THEN Fin(-(a.num * b.den), a.den * (-b.num))
    ELSE Fin(a.num * b.den, a.den * b.num)

\* torch.exp, to base 2 and on integer arguments: exp(-inf) = 0 and
\* exp(l) = 2^l
RECURSIVE Pow2(_)
Pow2(n) == IF n = 0 THEN 1 ELSE 2 * Pow2(n - 1)

Exp(l) ==
    IF l.kind = "nan" THEN NaN
    ELSE IF l.kind = "inf" THEN (IF l.num > 0 THEN PosInf ELSE Zero)
    ELSE IF l.num >= 0 THEN Fin(Pow2(l.num), 1)
    ELSE Fin(1, Pow2(-l.num))

\* ------------------------------------------------------------------------
\* NPE_B._log_prob_proposal_posterior
\* ------------------------------------------------------------------------
\* the samples of theta
Batch == 1 .. BatchSize

\* log-densities a distribution's log_prob can give at one sample
LogVal == {MinusInf, Fin(-1, 1), Fin(0, 1)}

\* a torch Distribution, given by its log_prob at each sample of theta
Dists == [Batch -> LogVal]

\* log-probabilities the density estimator can give at one sample
NetLogVal == {Fin(-1, 1), Fin(0, 1)}
Nets == [Batch -> NetLogVal]

\* the histories of at most n distributions
RECURSIVE Histories(_)
Histories(n) ==
    IF n = 0 THEN {<<>>}
    ELSE LET H == Histories(n - 1)
         IN  H \cup {Append(h, d) : h \in {g \in H : Len(g) = n - 1}, d \in Dists}

\* value of a local that is not assigned yet
None == [i \in Batch |-> NaN]

VARIABLES
    self_prior,               \* self._prior
    self_round,               \* self._round
    self_proposal_roundwise,  \* self._proposal_roundwise
    self_neural_net,          \* self._neural_net
    pc,                       \* position of the call
    prior,                    \* local prior
    proposal,                 \* local proposal, the running mixture
    idx,                      \* position of the for loop in the history
    importance_weights,       \* local importance_weights
    result,                   \* the tensor returned
    evals,                    \* the log_prob evaluations made, in order
    added                     \* history positions added to the mixture

npeVars == <<self_prior, self_round, self_proposal_roundwise, self_neural_net,
             pc, prior, proposal, idx, importance_weights, result, evals, added>>

\* utils.assert_all_finite: passes iff every entry of quantity is finite
assert_all_finite(quantity) == \A i \in Batch : IsFinite(quantity[i])

\* prop = 1.0 / (self._round + 1)
prop == Fin(1, self_round + 1)

InitNPE ==
    /\ self_prior \in Dists
    /\ self_round \in 0 .. MaxRound
    /\ self_proposal_roundwise \in Histories(MaxLen)
    /\ self_neural_net \in Nets
    /\ pc = "idle"
    /\ prior = None
    /\ proposal = None
    /\ idx = 0
    /\ importance_weights = None
    /\ result = None
    /\ evals = <<>>
    /\ added = {}

\* lines 84-92: evaluate and check the prior, start the mixture at zero
EvalPrior ==
    /\ pc = "idle"
    /\ evals' = Append(evals, "prior")
    /\ IF assert_all_finite(self_prior)
       THEN /\ prior' = [i \in Batch |-> Exp(self_prior[i])]
            /\ proposal' = [i \in Batch |-> Zero]
            /\ idx' = 1
            /\ pc' = "loop"
       ELSE /\ pc' = "raised"
            /\ UNCHANGED <<prior, proposal, idx>>
    /\ UNCHANGED <<self_prior, self_round, self_proposal_roundwise,
                   self_neural_net, importance_weights, result, added>>

\* LoopStep with the contribution added before the check of line 95
LoopStep_AddThenCheck ==
    /\ pc = "loop"
    /\ idx <= Len(self_proposal_roundwise)
    /\ LET density == self_proposal_roundwise[idx]
       IN  /\ evals' = Append(evals, "proposal")
           /\ proposal' = [i \in Batch |->
                              FAdd(proposal[i], FMul(prop, Exp(density[i])))]
           /\ added' = added \cup {idx}
           /\ IF assert_all_finite(density)
              THEN idx' = idx + 1 /\ pc' = "loop"
              ELSE idx' = idx /\ pc' = "raised"
    /\ UNCHANGED <<self_prior, self_round, self_proposal_roundwise,
                   self_neural_net, prior, importance_weights, result>>

\* LoopStep with the history consumed: density = history.pop(0)
LoopStep_Pop ==
    /\ pc = "loop"
    /\ self_proposal_roundwise # <<>>
    /\ LET density == Head(self_proposal_roundwise)
       IN  /\ evals' = Append(evals, "proposal")
           /\ self_proposal_roundwise' = Tail(self_proposal_roundwise)
           /\ IF assert_all_finite(density)
              THEN /\ proposal' = [i \in Batch |->
                                     FAdd(proposal[i], FMul(prop, Exp(density[i])))]
                   /\ pc' = "loop"
              ELSE /\ pc' = "raised"
                   /\ UNCHANGED proposal
    /\ UNCHANGED <<self_prior, self_round, self_neural_net, prior, idx,
                   added, importance_weights, result>>

\* lines 94-96: one iteration of the loop over the proposal history
LoopStep ==
    /\ pc = "loop"
    /\ idx <= Len(self_proposal_roundwise)
    /\ LET density == self_proposal_roundwise[idx]
       IN  /\ evals' = Append(evals, "proposal")
           /\ IF assert_all_finite(density)
              THEN /\ proposal' = [i \in Batch |->
                                     FAdd(proposal[i], FMul(prop, Exp(density[i])))]
                   /\ added' = added \cup {idx}
                   /\ idx' = idx + 1
                   /\ pc' = "loop"
              ELSE /\ pc' = "raised"
                   /\ UNCHANGED <<proposal, added, idx>>
    /\ UNCHANGED <<self_prior, self_round, self_proposal_roundwise,
                   self_neural_net, prior, importance_weights, result>>

\* lines 99-101: the importance weights and the weighted log-probability
Finish ==
    /\ pc = "loop"
    /\ idx > Len(self_proposal_roundwise)
    /\ importance_weights' = [i \in Batch |-> FDiv(prior[i], proposal[i])]
    /\ evals' = Append(evals, "net")
    /\ result' = [i \in Batch |->
                    FMul(importance_weights'[i], self_neural_net[i])]
    /\ pc' = "returned"
    /\ UNCHANGED <<self_prior, self_round, self_proposal_roundwise,
                   self_neural_net, prior, proposal, idx, added>>

\* the training loop calls the routine again, on the same trainer
NextCall ==
    /\ pc \in {"returned", "raised"}
    /\ pc' = "idle"
    /\ prior' = None
    /\ proposal' = None
    /\ idx' = 0
    /\ importance_weights' = None
    /\ result' = None
    /\ evals' = <<>>
    /\ added' = {}
    /\ UNCHANGED <<self_prior, self_round, self_proposal_roundwise,
                   self_neural_net>>

\* ------------------------------------------------------------------------
\* Tensors by shape and finiteness: [shape, fin], fin[i] is TRUE iff the
\* entry at index i (a tuple, from 1) is finite
\* ------------------------------------------------------------------------
RECURSIVE Indices(_)
Indices(s) ==
    IF s = <<>> THEN {<<>>}
    ELSE {<<i>> \o r : i \in 1 .. Head(s), r \in Indices(Tail(s))}

MaxOf(a, b) == IF a < b THEN b ELSE a

\* s with 1s in front, to n dimensions
PadLeft(s, n) ==
    [k \in 1 .. n |-> IF k <= n - Len(s) THEN 1 ELSE s[k - (n - Len(s))]]

\* torch's broadcasting rule: dimensions are aligned from the right and two
\* sizes are compatible iff they are equal or one of them is 1
Broadcastable(s1, s2) ==
    LET n == MaxOf(Len(s1), Len(s2))
    IN  \A k \in 1 .. n :
            \/ PadLeft(s1, n)[k] = PadLeft(s2, n)[k]
            \/ PadLeft(s1, n)[k] = 1
            \/ PadLeft(s2, n)[k] = 1

BroadcastShape(s1, s2) ==
    LET n == MaxOf(Len(s1), Len(s2))
    IN  [k \in 1 .. n |-> IF PadLeft(s1, n)[k] = 1 THEN PadLeft(s2, n)[k]
                          ELSE PadLeft(s1, n)[k]]

\* the index into an operand of shape s read for the index i of the result
Proj(i, s) ==
    [k \in 1 .. Len(s) |-> IF s[k] = 1 THEN 1 ELSE i[k + (Len(i) - Len(s))]]

\* a + b of two broadcastable tensors
TAdd(a, b) ==
    LET shape == BroadcastShape(a.shape, b.shape)
    IN  [shape |-> shape,
         fin |-> [i \in Indices(shape) |->
                     a.fin[Proj(i, a.shape)] /\ b.fin[Proj(i, b.shape)]]]

\* torch.stack of a non-empty sequence of tensors of one shape
Stack(ts) ==
    LET shape == <<Len(ts)>> \o ts[1].shape
    IN  [shape |-> shape,
         fin |-> [i \in Indices(shape) |-> ts[Head(i)].fin[Tail(i)]]]

Swap(i, d0, d1) ==
    [k \in 1 .. Len(i) |-> IF k = d0 THEN i[d1] ELSE IF k = d1 THEN i[d0] ELSE i[k]]

\* t.transpose(d0 - 1, d1 - 1)
Transpose(t, d0, d1) ==
    LET shape == Swap(t.shape, d0, d1)
    IN  [shape |-> shape,
         fin |-> [i \in Indices(shape) |-> t.fin[Swap(i, d0, d1)]]]

Front(s) == SubSeq(s, 1, Len(s) - 1)

\* torch.sum(t, dim=-1)
SumLast(t) ==
    LET shape == Front(t.shape)
    IN  [shape |-> shape,
         fin |-> [i \in Indices(shape) |->
                     \A j \in 1 .. t.shape[Len(t.shape)] : t.fin[Append(i, j)]]]

NotOne(d) == d # 1

RECURSIVE Unsqueezed(_, _)
Unsqueezed(i, s) ==
    IF s = <<>> THEN <<>>
    ELSE IF Head(s) = 1 THEN <<1>> \o Unsqueezed(i, Tail(s))
    ELSE <<Head(i)>> \o Unsqueezed(Tail(i), Tail(s))

\* t.squeeze(): every dimension of size 1 is removed
Squeeze(t) ==
    LET shape == SelectSeq(t.shape, NotOne)
    IN  [shape |-> shape,
         fin |-> [i \in Indices(shape) |-> t.fin[Unsqueezed(i, t.shape)]]]

RECURSIVE Product(_)
Product(s) == IF s = <<>> THEN 1 ELSE Head(s) * Product(Tail(s))

\* ------------------------------------------------------------------------
\* BinomialGammaPotential
\* ------------------------------------------------------------------------
\* largest batch of candidate parameters handed to the potential
MaxBatch == 2
\* largest number of observed trials, x_o.shape[0]
MaxTrials == 2
\* largest number K of binomial components
MaxK == 2

\* a python float
Scalar == [tensor |-> FALSE, shape |-> <<>>]
\* a Tensor of the given shape
TensorOf(s) == [tensor |-> TRUE, shape |-> s]

\* the concentration_scaling arguments: a float, a 0-d tensor, the 1-d and
\* the 2-d tensors
CsArgs ==
    {Scalar, TensorOf(<<>>)}
        \cup {TensorOf(<<n>>) : n \in 1 .. MaxTrials}
        \cup {TensorOf(<<n, m>>) : n \in 1 .. MaxTrials, m \in 1 .. 2}

\* the shapes of the argument theta: 1-d and 2-d
ThetaShapes ==
    {<<d>> : d \in 1 .. MaxK + 1}
        \cup {<<b, d>> : b \in 1 .. MaxBatch, d \in 1 .. MaxK + 1}

VARIABLES
    x_o,                    \* shape of self.x_o, (num_trials, columns)
    cs_arg,                 \* the argument concentration_scaling of __init__
    pot_pc,                 \* position of the constructor or of the call
    concentration_scaling,  \* self.concentration_scaling
    grad_enabled,           \* torch.is_grad_enabled()
    prev,                   \* the mode saved by torch.set_grad_enabled
    grad_at_entry,          \* the mode when __call__ was entered
    theta,                  \* shape of theta in __call__
    track_gradients,        \* argument of __call__
    lp_finite,              \* every log-probability evaluated is finite
    iid,                    \* outcome of iid_likelihood
    iid_grad,               \* mode under which iid_likelihood ran
    prior_grad,             \* mode under which prior.log_prob ran
    pot_result              \* outcome of __call__

potVars == <<x_o, cs_arg, pot_pc, concentration_scaling, grad_enabled, prev,
             grad_at_entry, theta, track_gradients, lp_finite, iid, iid_grad,
             prior_grad, pot_result>>

Mode(b) == IF b THEN "on" ELSE "off"

NoIid == [status |-> "none", joint_computed |-> FALSE, joint_shape |-> <<>>,
          joint_finite |-> FALSE, shape |-> <<>>]

NoResult == [status |-> "none", shape |-> <<>>]

\* potential_init without the assertion of line 26
potential_init_NoAssert(x_o_shape, cs) ==
    IF cs.tensor
    THEN LET num_trials == x_o_shape[1]
         IN  IF Product(cs.shape) % num_trials # 0
             THEN [status |-> "RuntimeError", value |-> cs]
             ELSE [status |-> "ok",
                   value |-> TensorOf(<<1, num_trials,
                                        Product(cs.shape) \div num_trials>>)]
    ELSE [status |-> "ok", value |-> cs]

\* lines 24-31 of __init__: the value stored in self.concentration_scaling,
\* or the exception raised
potential_init(x_o_shape, cs) ==
    IF cs.tensor
    THEN LET num_trials == x_o_shape[1]
         IN  IF cs.shape = <<>>
             THEN [status |-> "IndexError", value |-> cs]
             ELSE IF cs.shape[1] # num_trials
             THEN [status |-> "AssertionError", value |-> cs]
             ELSE [status |-> "ok",
                   value |-> TensorOf(<<1, num_trials,
                                        Product(cs.shape) \div num_trials>>)]
    ELSE [status |-> "ok", value |-> cs]

\* sbi.utils.torchutils.atleast_2d
atleast_2d(s) == IF Len(s) < 2 THEN <<1>> \o s ELSE s

\* Binomial(probs).log_prob(value), probs of shape (batch_size, 1) and value
\* of shape (num_trials,); ok[b] iff sample b gives finite log-probabilities
BinomialLogProb(batch_size, num_trials, ok) ==
    LET shape == BroadcastShape(<<batch_size, 1>>, <<num_trials>>)
    IN  [shape |-> shape, fin |-> [i \in Indices(shape) |-> ok[i[1]]]]

\* lines 50-61: logprob_choices
logprob_choices(batch_size, num_trials, K, ok) ==
    Transpose(
        Transpose(
            Stack([rho_idx \in 1 .. K |->
                       BinomialLogProb(batch_size, num_trials, ok)]),
            1, 2),
        2, 3)

\* lines 63-65: logprob_rts; ok[b] iff sample b gives finite log-densities
logprob_rts(batch_size, num_trials, cs, ok) ==
    LET beta == <<batch_size, 1, 1>>
        concentration == IF cs.tensor THEN BroadcastShape(cs.shape, beta)
                         ELSE beta
        batch_shape == BroadcastShape(concentration, beta)
        value == <<1, num_trials, 1>>
        shape == BroadcastShape(batch_shape, value)
    IN  [shape |-> shape, fin |-> [i \in Indices(shape) |-> ok[i[1]]]]

AllFinite(t) == \A i \in Indices(t.shape) : t.fin[i]

\* joint_assertions without the assertion of line 70
joint_assertions_FiniteOnly(joint_likelihood, batch_size, num_trials) ==
    AllFinite(joint_likelihood)

\* lines 70-73: the two assertions on joint_likelihood pass
joint_assertions(joint_likelihood, batch_size, num_trials) ==
    /\ joint_likelihood.shape = <<batch_size, num_trials>>
    /\ AllFinite(joint_likelihood)

\* joint_likelihood.sum(1)
Sum1(s) == <<s[1]>> \o SubSeq(s, 3, Len(s))

\* lines 41-74: iid_likelihood on theta of shape theta_shape; the outcome is
\* the shape returned or the exception raised, with the joint likelihood
\* when the call got as far as computing it
iid_likelihood(theta_shape, x_o_shape, cs, choices_ok, rts_ok) ==
    LET batch_size == theta_shape[1]
        num_trials == x_o_shape[1]
        K == theta_shape[2] - 1
        choices == logprob_choices(batch_size, num_trials, K, choices_ok)
        rts == logprob_rts(batch_size, num_trials, cs, rts_ok)
        summed == SumLast(choices)
        squeezed == Squeeze(rts)
        joint_likelihood == TAdd(summed, squeezed)
        Joint(st, sh) ==
            [status |-> st, joint_computed |-> TRUE,
             joint_shape |-> joint_likelihood.shape,
             joint_finite |-> AllFinite(joint_likelihood), shape |-> sh]
    IN  IF K >= 1 /\ x_o_shape[2] < K + 1
        THEN [NoIid EXCEPT !.status = "IndexError"]
        ELSE IF K = 0
        THEN [NoIid EXCEPT !.status = "RuntimeError"]
        ELSE IF ~Broadcastable(summed.shape, squeezed.shape)
        THEN [NoIid EXCEPT !.status = "RuntimeError"]
        ELSE IF ~joint_assertions(joint_likelihood, batch_size, num_trials)
        THEN Joint("AssertionError", <<>>)
        ELSE Joint("ok", Sum1(joint_likelihood.shape))

InitPot ==
    /\ x_o \in {<<t, c>> : t \in 1 .. MaxTrials, c \in 1 .. MaxK + 1}
    /\ cs_arg \in CsArgs
    /\ grad_enabled \in BOOLEAN
    /\ pot_pc = "new"
    /\ concentration_scaling = Scalar
    /\ prev = FALSE
    /\ grad_at_entry = FALSE
    /\ theta = <<>>
    /\ track_gradients = FALSE
    /\ lp_finite = FALSE
    /\ iid = NoIid
    /\ iid_grad = "none"
    /\ prior_grad = "none"
    /\ pot_result = NoResult

\* __init__, lines 14-31
Construct ==
    /\ pot_pc = "new"
    /\ LET r == potential_init(x_o, cs_arg)
       IN  IF r.status = "ok"
           THEN /\ concentration_scaling' = r.value
                /\ pot_pc' = "ready"
           ELSE /\ pot_pc' = "init_failed"
                /\ UNCHANGED concentration_scaling
    /\ UNCHANGED <<x_o, cs_arg, grad_enabled, prev, grad_at_entry, theta,
                   track_gradients, lp_finite, iid, iid_grad, prior_grad,
                   pot_result>>

\* __call__, lines 34-36: theta = atleast_2d(theta), then
\* torch.set_grad_enabled(track_gradients) saves the mode and sets it
Call ==
    /\ pot_pc = "ready"
    /\ \E th \in ThetaShapes, tg \in BOOLEAN :
           /\ theta' = atleast_2d(th)
           /\ track_gradients' = tg
           /\ prev' = grad_enabled
           /\ grad_enabled' = tg
    /\ grad_at_entry' = grad_enabled
    /\ pot_pc' = "with"
    /\ UNCHANGED <<x_o, cs_arg, concentration_scaling, lp_finite, iid,
                   iid_grad, prior_grad, pot_result>>

\* line 37: iid_ll = self.iid_likelihood(theta)
IidLikelihood ==
    /\ pot_pc = "with"
    /\ \E choices_ok \in [1 .. theta[1] -> BOOLEAN],
          rts_ok \in [1 .. theta[1] -> BOOLEAN] :
           /\ iid' = iid_likelihood(theta, x_o, concentration_scaling,
                                    choices_ok, rts_ok)
           /\ lp_finite' = \A b \in 1 .. theta[1] : choices_ok[b] /\ rts_ok[b]
    /\ iid_grad' = Mode(grad_enabled)
    /\ pot_pc' = "exit"
    /\ UNCHANGED <<x_o, cs_arg, concentration_scaling, grad_enabled, prev,
                   grad_at_entry, theta, track_gradients, prior_grad,
                   pot_result>>

\* restored_mode without the restoration on an exception
restored_mode_UnlessRaising(saved, current, raising) ==
    IF raising THEN current ELSE saved

\* the with block of line 36 is left, by its end or by the exception of
\* iid_likelihood: __exit__ sets the saved mode
restored_mode(saved, current, raising) == saved

ExitWith ==
    /\ pot_pc = "exit"
    /\ grad_enabled' = restored_mode(prev, grad_enabled, iid.status # "ok")
    /\ IF iid.status = "ok"
       THEN /\ pot_pc' = "after"
            /\ UNCHANGED pot_result
       ELSE /\ pot_pc' = "done"
            /\ pot_result' = [status |-> "raised", shape |-> <<>>]
    /\ UNCHANGED <<x_o, cs_arg, concentration_scaling, prev, grad_at_entry,
                   theta, track_gradients, lp_finite, iid, iid_grad,
                   prior_grad>>

\* line 39: return iid_ll + self.prior.log_prob(theta); the prior's
\* log_prob gives a tensor of shape (batch_size,) or raises
AddPrior ==
    /\ pot_pc = "after"
    /\ prior_grad' = Mode(grad_enabled)
    /\ \E ok \in BOOLEAN :
           pot_result' =
               IF ok /\ Broadcastable(iid.shape, <<theta[1]>>)
               THEN [status |-> "returned",
                     shape |-> BroadcastShape(iid.shape, <<theta[1]>>)]
               ELSE [status |-> "raised", shape |-> <<>>]
    /\ pot_pc' = "done"
    /\ UNCHANGED <<x_o, cs_arg, concentration_scaling, grad_enabled, prev,
                   grad_at_entry, theta, track_gradients, lp_finite, iid,
                   iid_grad>>

\* the sampler calls the potential again
NextPotCall ==
    /\ pot_pc = "done"
    /\ pot_pc' = "ready"
    /\ theta' = <<>>
    /\ track_gradients' = FALSE
    /\ prev' = FALSE
    /\ grad_at_entry' = FALSE
    /\ lp_finite' = FALSE
    /\ iid' = NoIid
    /\ iid_grad' = "none"
    /\ prior_grad' = "none"
    /\ pot_result' = NoResult
    /\ UNCHANGED <<x_o, cs_arg, concentration_scaling, grad_enabled>>

\* ------------------------------------------------------------------------
\* Specifications
\* ------------------------------------------------------------------------
vars == <<npeVars, potVars>>

NextPot ==
    \/ Construct /\ UNCHANGED npeVars
    \/ Call /\ UNCHANGED npeVars
    \/ IidLikelihood /\ UNCHANGED npeVars
    \/ ExitWith /\ UNCHANGED npeVars
    \/ AddPrior /\ UNCHANGED npeVars
    \/ NextPotCall /\ UNCHANGED npeVars

\* the trainer's routine alone: no potential is constructed
NoPot ==
    /\ x_o = <<1, 1>>
    /\ cs_arg = Scalar
    /\ grad_enabled = TRUE
    /\ pot_pc = "new"
    /\ concentration_scaling = Scalar
    /\ prev = FALSE
    /\ grad_at_entry = FALSE
    /\ theta = <<>>
    /\ track_gradients = FALSE
    /\ lp_finite = FALSE
    /\ iid = NoIid
    /\ iid_grad = "none"
    /\ prior_grad = "none"
    /\ pot_result = NoResult

\* the potential alone: the trainer is not called
NoNPE ==
    /\ self_prior = [i \in Batch |-> Zero]
    /\ self_round = 0
    /\ self_proposal_roundwise = <<>>
    /\ self_neural_net = [i \in Batch |-> Zero]
    /\ pc = "idle"
    /\ prior = None
    /\ proposal = None
    /\ idx = 0
    /\ importance_weights = None
    /\ result = None
    /\ evals = <<>>
    /\ added = {}

NextNPE ==
    \/ EvalPrior /\ UNCHANGED potVars
    \/ LoopStep /\ UNCHANGED potVars
    \/ Finish /\ UNCHANGED potVars
    \/ NextCall /\ UNCHANGED potVars

InitTrainer == InitNPE /\ NoPot

SpecNPE == InitTrainer /\ [][NextNPE]_vars

InitPotential == InitPot /\ NoNPE

SpecPot == InitPotential /\ [][NextPot]_vars

\* ------------------------------------------------------------------------
\* Properties of _log_prob_proposal_posterior (under SpecNPE)
\* ------------------------------------------------------------------------
NonFinite(d) == \E i \in Batch : d[i].kind # "fin"

History == self_proposal_roundwise

\* the sum of the densities of the history entries at the positions S, at
\* sample i; it does not depend on the order of the history
RECURSIVE SumDensities(_, _)
SumDensities(S, i) ==
    IF S = {} THEN Zero
    ELSE LET k == CHOOSE k \in S : TRUE
         IN  FAdd(Exp(History[k][i]), SumDensities(S \ {k}, i))

\* C1: a call with round index 0 and an empty proposal history returns with
\* an importance weight of 1 at every sample, hence with the density
\* estimator's log-probability, and divides by no zero mixture density.
C1_EmptyHistoryWeightOne ==
    (pc = "returned" /\ self_round = 0 /\ History = <<>>)
        => \A i \in Batch :
               /\ proposal[i] # Zero
               /\ importance_weights[i] = One
               /\ result[i] = self_neural_net[i]

\* C2: with a history of exactly one distribution, identical to the prior,
\* and round index 1 (the length of the history), the importance weight is 1
\* at every sample of non-zero prior density.
C2_IdenticalProposalWeightOne ==
    (/\ pc = "returned"
     /\ Len(History) = 1
     /\ self_round = Len(History)
     /\ History[1] = self_prior)
        => \A i \in Batch : prior[i] # Zero => importance_weights[i] = One

\* C3: with a history of length R >= 1 and round index R, in any order, the
\* mixture density divided by is, at every sample, (1/R) times the sum of
\* the entries' densities.
C3_MixtureIsAverage ==
    (/\ pc = "returned"
     /\ Len(History) >= 1
     /\ self_round = Len(History))
        => \A i \in Batch :
               proposal[i] = FMul(Fin(1, Len(History)),
                                  SumDensities(DOMAIN History, i))

\* C4: a call in which the prior's log-density or a history entry's
\* log-density is non-finite at some sample raises and returns nothing; the
\* prior is checked before any proposal is evaluated, a proposal is checked
\* before its contribution is added to the mixture, and the density
\* estimator is not evaluated in a call that raises.
C4_FailFast ==
    /\ pc \in {"returned", "raised"}
           => (pc = "raised"
                 <=> (NonFinite(self_prior)
                        \/ \E k \in DOMAIN History : NonFinite(History[k])))
    /\ pc = "raised"
           => /\ result = None
              /\ importance_weights = None
              /\ \A n \in DOMAIN evals : evals[n] # "net"
    /\ evals # <<>> => evals[1] = "prior"
    /\ NonFinite(self_prior) => Len(evals) <= 1 /\ added = {}
    /\ \A k \in added : ~NonFinite(History[k])
    /\ \A n \in DOMAIN evals : evals[n] = "net" => pc = "returned"

\* C4, witness: a call raised at a non-finite proposal after the prior and
\* an earlier proposal passed the check.
C4_Witness ==
    /\ pc = "raised"
    /\ ~NonFinite(self_prior)
    /\ added = {1}
    /\ NonFinite(History[2])

\* C10: no step of a call, returning or raising, changes the trainer's
\* round index, proposal history, prior or density estimator.
C10_TrainerUnchanged ==
    [][/\ self_round' = self_round
       /\ self_proposal_roundwise' = self_proposal_roundwise
       /\ self_prior' = self_prior
       /\ self_neural_net' = self_neural_net]_vars

\* C10, witness: a call returned on a trainer in a later round, its local
\* mixture filled from the whole history.
C10_Witness ==
    /\ pc = "returned"
    /\ self_round > 0
    /\ Len(History) = MaxLen
    /\ \E i \in Batch : proposal[i] # Zero

\* ------------------------------------------------------------------------
\* Properties of BinomialGammaPotential (under SpecPot)
\* ------------------------------------------------------------------------
\* C5: a concentration_scaling tensor whose leading dimension differs from
\* x_o.shape[0] makes __init__ fail, so that nothing is evaluated on the
\* potential; a tensor whose leading dimension equals x_o.shape[0], and a
\* float, is accepted.
C5_ConstructionChecked ==
    pot_pc # "new"
        => /\ (cs_arg.tensor /\ cs_arg.shape # <<>> /\ cs_arg.shape[1] # x_o[1])
                  => pot_pc = "init_failed" /\ iid = NoIid /\ pot_result = NoResult
           /\ (cs_arg.tensor /\ cs_arg.shape # <<>> /\ cs_arg.shape[1] = x_o[1])
                  => pot_pc # "init_failed"
           /\ ~cs_arg.tensor => pot_pc # "init_failed"

\* C5, witness: __init__ failed on a 1-d tensor of the wrong length.
C5_Witness ==
    /\ pot_pc = "init_failed"
    /\ cs_arg.tensor
    /\ Len(cs_arg.shape) = 1
    /\ cs_arg.shape[1] # x_o[1]

\* the call's input is well formed: K >= 1 components, a column of x_o for
\* each, a float concentration_scaling, finite log-probabilities
WellFormed ==
    /\ theta[2] >= 2
    /\ x_o[2] = theta[2]
    /\ ~concentration_scaling.tensor
    /\ lp_finite

\* C6: on every well-formed input the joint log-likelihood has the shape
\* (batch_size, num_trials), the assertions pass and iid_likelihood returns
\* batch_size values.
C6_JointShape ==
    (iid.status # "none" /\ WellFormed)
        => /\ iid.joint_computed
           /\ iid.joint_shape = <<theta[1], x_o[1]>>
           /\ iid.status = "ok"
           /\ iid.shape = <<theta[1]>>

\* C7: iid_likelihood returns only from a joint log-likelihood of shape
\* (batch_size, num_trials) with finite entries; otherwise it raises, with
\* no sum over the trials taken.
C7_ReturnsOnlyCheckedJoint ==
    /\ iid.status = "ok"
           => /\ iid.joint_computed
              /\ iid.joint_shape = <<theta[1], x_o[1]>>
              /\ iid.joint_finite
    /\ (iid.joint_computed
          /\ (iid.joint_shape # <<theta[1], x_o[1]>> \/ ~iid.joint_finite))
           => iid.status = "AssertionError" /\ iid.shape = <<>>
    /\ pot_result.status = "returned" => iid.status = "ok"

\* C7, witness: iid_likelihood raised on a joint log-likelihood of the
\* wrong shape, all of whose entries are finite.
C7_Witness ==
    /\ iid.joint_computed
    /\ iid.joint_shape # <<theta[1], x_o[1]>>
    /\ iid.joint_finite
    /\ iid.status = "AssertionError"

\* C8: a call with track_gradients = False that returns has evaluated the
\* likelihood and the prior's log-density with gradient tracking disabled.
C8_NoGradForAll ==
    (pot_result.status = "returned" /\ ~track_gradients)
        => iid_grad = "off" /\ prior_grad = "off"

\* C9: when __call__ has finished, by a return or by an exception, the
\* gradient mode is the one it was entered with.
C9_GradModeRestored ==
    pot_pc = "done" => grad_enabled = grad_at_entry

\* C9, witness: __call__ raised from an assertion of iid_likelihood, having
\* been asked for the mode opposite to its caller's.
C9_Witness ==
    /\ pot_pc = "done"
    /\ pot_result.status = "raised"
    /\ iid.status = "AssertionError"
    /\ track_gradients # grad_at_entry

====
